---- MODULE Spec2Model ----
(***************************************************************************)
(* A model of the BNO080 SHTP driver core (src/src/wrapper.rs): the        *)
(* per-channel sequence counters, the send and receive buffers, the two    *)
(* device flags, the channel/report dispatcher, the initialization         *)
(* handshake and the report enabler.  The transport (SensorInterface) and  *)
(* the delay source are the environment: every transport call may fail,    *)
(* and a read may deliver any frame of the input sets below.               *)
(*                                                                         *)
(* A Rust panic (an out-of-bounds index, a slice length mismatch, an       *)
(* arithmetic overflow in a build with overflow checks) is modelled by     *)
(* panicked = TRUE, after which the driver takes no further step.          *)
(***************************************************************************)
EXTENDS Integers, Sequences, FiniteSets, TLC

\* ---------------------------------------------------------------- constants

\* PACKET_HEADER_LENGTH is imported from crate::interface; send_packet copies
\* its 4-byte packet_header into packet_send_buf[..PACKET_HEADER_LENGTH], and
\* copy_from_slice demands equal lengths, so it is 4.
PACKET_HEADER_LENGTH == 4
PACKET_SEND_BUF_LEN == 256
PACKET_RECV_BUF_LEN == 1024
NUM_CHANNELS == 6

SHTP_CHAN_COMMAND == 0
CHANNEL_EXECUTABLE == 1
CHANNEL_HUB_CONTROL == 2
CHANNEL_SENSOR_REPORTS == 3

SENSORHUB_PROD_ID_REQ == 249
SENSORHUB_PROD_ID_RESP == 248
SHTP_REPORT_SET_FEATURE_COMMAND == 253
SENSOR_REPORTID_ROTATION_VECTOR == 5
SENSORHUB_COMMAND_RESP == 241
EXECUTABLE_DEVICE_CMD_RESET == 1
EXECUTABLE_DEVICE_RESP_RESET_COMPLETE == 1
SH2_INIT_UNSOLICITED == 128
SH2_CMD_INITIALIZE == 4
SH2_STARTUP_INIT_UNSOLICITED == SH2_CMD_INITIALIZE + SH2_INIT_UNSOLICITED

\* ------------------------------------------------------------------- bounds

\* Longest frame the transport delivers in the model (10 bytes is the first
\* length at which a sensor report can be dispatched without a fault).
MaxFrameLen == 10
\* Longest frame the transport delivers while init or a drain is modelled.
MaxInitFrameLen == 5
\* Most non-empty frames the transport yields to one drain loop.
MaxDrain == 2
\* Most frames the driver sends in one behaviour of Spec.
MaxSends == 2
\* Most send_packet calls in one behaviour of SpecSend.
MaxSendCalls == 2

\* ------------------------------------------------------------ input domains

\* Channel bytes of delivered frames: the four known channels and a
\* reserved one (4).
FrameChannels == {0, 1, 2, 3, 4}
\* Report ids (the byte right after the header) of delivered frames.
FrameReportIds == {0, 1, SENSORHUB_COMMAND_RESP, SENSORHUB_PROD_ID_RESP}
\* Fill bytes of the rest of a delivered frame: 0 and 2 as tag/length
\* values of an advertisement, 0x84 as the sub-code the dispatcher inspects
\* at offset 6 (and a length that runs past the end of any body).
FrameFills == {0, 2, SH2_STARTUP_INIT_UNSOLICITED}

\* The frame of n bytes [n_lo, n_hi, chan, 0, rid, fill, fill, ...], cut to n.
MkFrame(n, chan, rid, fill) ==
    [i \in 1..n |->
        CASE i = 1 -> n % 256
          [] i = 2 -> n \div 256
          [] i = 3 -> chan
          [] i = 4 -> 0
          [] i = 5 -> rid
          [] OTHER -> fill]

Min(a, b) == IF a < b THEN a ELSE b

\* Every frame of at most maxlen bytes over the given channel, report id and
\* fill bytes, each frame once (a byte a short frame does not hold is not
\* varied).
FramesUpTo(maxlen, chans, rids, fills) ==
    { MkFrame(n, 0, 0, 0) : n \in 0..Min(2, maxlen) }
      \cup { MkFrame(n, c, 0, 0) : n \in 3..Min(4, maxlen), c \in chans }
      \cup { MkFrame(n, c, r, 0) : n \in 5..Min(5, maxlen), c \in chans, r \in rids }
      \cup { MkFrame(n, c, r, f) : n \in 6..maxlen, c \in chans, r \in rids, f \in fills }

DispatchFrames == FramesUpTo(MaxFrameLen, FrameChannels, FrameReportIds, FrameFills)

\* Frames the transport delivers while init and the drain loop are modelled.
InitFrames ==
    FramesUpTo(MaxInitFrameLen,
               {CHANNEL_EXECUTABLE, CHANNEL_HUB_CONTROL, CHANNEL_SENSOR_REPORTS},
               {EXECUTABLE_DEVICE_RESP_RESET_COMPLETE, SENSORHUB_PROD_ID_RESP}, {0})

\* The 52-byte frame of the tests (hub-control channel, product-id response).
MIDPACK == << 52, 0, 2, 123, 248, 0, 1, 2, 150, 164, 152, 0, 230,
           0, 0, 0, 4, 0, 0, 0, 248, 0, 4, 4, 54, 163,
           152, 0, 149, 1, 0, 0, 2, 0, 0, 0, 248, 0, 4,
           2, 227, 162, 152, 0, 217, 1, 0, 0, 7, 0, 0, 0 >>

\* ------------------------------------------------------------------ helpers

\* msg[i] of a Rust slice (0-based); the caller checks InBounds first, as
\* the indexing operator does.
InBounds(msg, i) == i < Len(msg)
At(msg, i) == msg[i + 1]

\* The array contents after buf[offset .. offset+Len(bytes)) = bytes, for an
\* array kept as its written prefix (the bytes beyond it are still zero).
WriteAt(buf, offset, bytes) ==
    LET padded == IF Len(buf) < offset
                  THEN buf \o [i \in 1..(offset - Len(buf)) |-> 0]
                  ELSE buf
    IN SubSeq(padded, 1, offset) \o bytes
         \o SubSeq(padded, offset + Len(bytes) + 1, Len(padded))

\* ----------------------------------------------------------- the dispatcher

\* The tag-length-value walk of handle_advertise_response, from `cursor`:
\* "oob" when payload[cursor] is read at or beyond the end of the payload
\* (a panic), else the cursor at which the loop ends.
RECURSIVE AdvertiseWalk(_, _, _)
AdvertiseWalk(payload, payload_len, cursor) ==
    IF cursor < payload_len
    THEN \* let _tag = payload[cursor]; cursor += 1;
         IF ~InBounds(payload, cursor) THEN [oob |-> TRUE, cursor |-> cursor]
         \* let len = payload[cursor]; cursor += 1;
         ELSE IF ~InBounds(payload, cursor + 1) THEN [oob |-> TRUE, cursor |-> cursor + 1]
         \* cursor += len as usize;
         ELSE AdvertiseWalk(payload, payload_len, cursor + 2 + At(payload, cursor + 1))
    ELSE [oob |-> FALSE, cursor |-> cursor]

\* The end of the walk over the frame buf[..received_len], cursor starting
\* at 1 (the response type is skipped).
AdvertiseEnd(buf, received_len) ==
    LET payload_len == received_len - PACKET_HEADER_LENGTH
        payload == SubSeq(buf, PACKET_HEADER_LENGTH + 1, received_len)
    IN AdvertiseWalk(payload, payload_len, 1)

\* Whether handle_advertise_response panics on the frame buf[..received_len].
handle_advertise_response(buf, received_len) ==
    IF received_len < PACKET_HEADER_LENGTH \/ received_len > PACKET_RECV_BUF_LEN
    THEN TRUE
    ELSE AdvertiseEnd(buf, received_len).oob

\* Whether handle_input_report panics: it reads msg[PACKET_HEADER_LENGTH + 5]
\* and both arms of its match are empty.
handle_input_report(buf, received_len) ==
    LET msg == SubSeq(buf, 1, received_len)
        cursor == PACKET_HEADER_LENGTH + 5
    IN IF ~InBounds(msg, cursor) THEN TRUE
       ELSE IF At(msg, cursor) = SENSOR_REPORTID_ROTATION_VECTOR THEN FALSE ELSE FALSE

\* device_reset after a report on the Executable channel, were every report
\* id taken for "reset complete".
ExecutableReport_AnyReportId(report_id, reset) == TRUE

\* device_reset after a report on the Executable channel, were the flag
\* flipped instead of set.
ExecutableReport_Toggle(report_id, reset) ==
    IF report_id = EXECUTABLE_DEVICE_RESP_RESET_COMPLETE THEN ~reset ELSE reset

\* device_reset after a report on the Executable channel.
ExecutableReport(report_id, reset) ==
    IF report_id = EXECUTABLE_DEVICE_RESP_RESET_COMPLETE THEN TRUE ELSE reset

\* The outcome of a dispatch: whether it panicked and the two flags after it.
Outcome(panic, reset, verified) ==
    [panic |-> panic, device_reset |-> reset, prod_id_verified |-> verified]

\* handle_received_packet on the receive buffer `buf` with the flags
\* (reset, verified) before the call.
handle_received_packet(buf, received_len, reset, verified) ==
    IF received_len > PACKET_RECV_BUF_LEN THEN Outcome(TRUE, reset, verified)
    ELSE
    LET msg == SubSeq(buf, 1, received_len) IN
    IF ~InBounds(msg, 2) THEN Outcome(TRUE, reset, verified)
    ELSE IF ~InBounds(msg, 4) THEN Outcome(TRUE, reset, verified)
    ELSE
    LET chan_num == At(msg, 2)
        report_id == At(msg, 4)
    IN CASE chan_num = CHANNEL_SENSOR_REPORTS ->
              Outcome(handle_input_report(buf, received_len), reset, verified)
         [] chan_num = SHTP_CHAN_COMMAND ->
              IF report_id = 0
              THEN Outcome(handle_advertise_response(buf, received_len), reset, verified)
              ELSE Outcome(FALSE, reset, verified)
         [] chan_num = CHANNEL_EXECUTABLE ->
              Outcome(FALSE, ExecutableReport(report_id, reset), verified)
         [] chan_num = CHANNEL_HUB_CONTROL ->
              IF report_id = SENSORHUB_COMMAND_RESP
              THEN IF ~InBounds(msg, 6) THEN Outcome(TRUE, reset, verified)
                   ELSE IF At(msg, 6) = SH2_STARTUP_INIT_UNSOLICITED
                        THEN Outcome(FALSE, reset, verified)
                        ELSE Outcome(FALSE, reset, verified)
              ELSE IF report_id = SENSORHUB_PROD_ID_RESP
              THEN Outcome(FALSE, reset, TRUE)
              ELSE Outcome(FALSE, reset, verified)
         [] OTHER -> Outcome(FALSE, reset, verified)

\* ------------------------------------------------------------------ sending

\* The header, were the length written most significant byte first.
PacketHeader_BigEndian(packet_length, channel, seq) ==
    << (packet_length \div 256) % 256, packet_length % 256, channel, seq >>

\* The 4-byte header send_packet builds.
PacketHeader(packet_length, channel, seq) ==
    << packet_length % 256, (packet_length \div 256) % 256, channel, seq >>

\* send_packet up to the transport call.  `overflow_checks` is the build's
\* choice for the u8 increment at 255 (panic or wrap).  stage: "index" (the
\* channel indexes beyond sequence_numbers), "overflow", "slice" (the body
\* does not fit the send buffer) are panics; "built" hands frame to the
\* transport.
send_packet(seqs, sendbuf, channel, body_data, overflow_checks) ==
    LET body_len == Len(body_data)
        packet_length == body_len + PACKET_HEADER_LENGTH
    IN IF channel >= NUM_CHANNELS
       THEN [stage |-> "index", seqs |-> seqs, buf |-> sendbuf, frame |-> << >>,
             packet_length |-> packet_length]
       ELSE IF seqs[channel] = 255 /\ overflow_checks
       THEN [stage |-> "overflow", seqs |-> seqs, buf |-> sendbuf, frame |-> << >>,
             packet_length |-> packet_length]
       ELSE
       LET seqs2 == [seqs EXCEPT ![channel] = (seqs[channel] + 1) % 256]
           buf1 == WriteAt(sendbuf, 0, PacketHeader(packet_length, channel, seqs2[channel]))
       IN IF packet_length > PACKET_SEND_BUF_LEN
          THEN [stage |-> "slice", seqs |-> seqs2, buf |-> buf1, frame |-> << >>,
                packet_length |-> packet_length]
          ELSE LET buf2 == WriteAt(buf1, PACKET_HEADER_LENGTH, body_data)
               IN [stage |-> "built", seqs |-> seqs2, buf |-> buf2,
                   frame |-> SubSeq(buf2, 1, packet_length),
                   packet_length |-> packet_length]

\* The body, were the interval sent in milliseconds (not multiplied by 1000).
EnableReportBody_Unscaled(report_id, millis_between_reports) ==
    << SHTP_REPORT_SET_FEATURE_COMMAND, report_id, 0, 0, 0,
       millis_between_reports % 256, (millis_between_reports \div 256) % 256, 0, 0,
       0, 0, 0, 0, 0, 0, 0, 0 >>

\* The 17-byte set-feature command body of enable_report.  The product is
\* taken in u32: a u16 times 1000 is at most 65,535,000, below 2^32.
EnableReportBody(report_id, millis_between_reports) ==
    LET micros_between_reports == millis_between_reports * 1000
    IN << SHTP_REPORT_SET_FEATURE_COMMAND, report_id, 0, 0, 0,
          micros_between_reports % 256,
          (micros_between_reports \div 256) % 256,
          (micros_between_reports \div 65536) % 256,
          (micros_between_reports \div 16777216) % 256,
          0, 0, 0, 0, 0, 0, 0, 0 >>

SoftResetBody == << EXECUTABLE_DEVICE_CMD_RESET >>
ProdIdRequestBody == << SENSORHUB_PROD_ID_REQ, 0 >>

\* -------------------------------------------------------------------- state

VARIABLES
    sequence_numbers,   \* [u8; NUM_CHANNELS]
    packet_send_buf,    \* the send buffer, kept as its written prefix
    packet_recv_buf,    \* the receive buffer: the bytes the latest read left
    device_reset,       \* "has the device been successfully reset"
    prod_id_verified,   \* "has the product ID been verified"
    panicked,           \* the driver has panicked
    pc,                 \* position inside a running init / eat_all_messages
    ret,                \* the latest call: [op, res, val]
    events,             \* transport and delay events of the latest call
    drained,            \* non-empty frames taken by the running drain loop
    sent,               \* the latest frame handed to the transport
    send_attempts,      \* send_packet calls per channel since construction
    last_send,          \* arguments and stage of the latest send_packet call
    reset_frame_dispatched,   \* an (Executable, 1) frame has been dispatched
    hub_pid_frame_received,   \* a (HubControl, 0xF8) frame has been read by
                              \* verify_product_id or dispatched
    last_millis,        \* the interval the latest enable_rotation_vector asked for
    transport_result    \* what the latest transport call returned: [ok, len, err]

vars == << sequence_numbers, packet_send_buf, packet_recv_buf, device_reset,
           prod_id_verified, panicked, pc, ret, events, drained, sent,
           send_attempts, last_send, reset_frame_dispatched, hub_pid_frame_received,
           last_millis, transport_result >>

sendVars == << sequence_numbers, packet_send_buf, sent, send_attempts, last_send >>
recvVars == << packet_recv_buf >>
flagVars == << device_reset, prod_id_verified >>
ghostVars == << reset_frame_dispatched, hub_pid_frame_received, last_millis >>

Channels == 0..(NUM_CHANNELS - 1)

Ret(op, res, val) == [op |-> op, res |-> res, val |-> val]

\* One externally visible event: kind "setup" | "send" | "recv" | "delay";
\* ok: the transport's result; num: the channel of a send, the milliseconds
\* of a delay, 1/0 for a non-empty/empty read; body: the body of a send.
Event(kind, ok, num, body) == [kind |-> kind, ok |-> ok, num |-> num, body |-> body]

NoSend == [channel |-> 0, body |-> << >>, before |-> 0, stage |-> "none", ok |-> FALSE]

\* Results of a transport call (setup, send_packet, read_packet): success,
\* with the length a read reports, or one of the transport's own error
\* values (opaque to the driver, the type parameter SE of the source; here
\* numbered from 1, 0 standing for no error).
TransportErrors == {1, 2}
IoOk(len) == [ok |-> TRUE, len |-> len, err |-> 0]
IoErr(e) == [ok |-> FALSE, len |-> 0, err |-> e]
\* What a setup or a send can return.
TransportResults == { IoOk(0) } \cup { IoErr(e) : e \in TransportErrors }

\* new_with_interface
Init ==
    /\ sequence_numbers = [c \in Channels |-> 0]
    /\ packet_send_buf = << >>
    /\ packet_recv_buf = << >>
    /\ device_reset = FALSE
    /\ prod_id_verified = FALSE
    /\ panicked = FALSE
    /\ pc = "idle"
    /\ ret = Ret("new", "Ok", 0)
    /\ events = << >>
    /\ drained = 0
    /\ sent = << >>
    /\ send_attempts = [c \in Channels |-> 0]
    /\ last_send = NoSend
    /\ reset_frame_dispatched = FALSE
    /\ hub_pid_frame_received = FALSE
    /\ last_millis = 0
    /\ transport_result = IoOk(0)

RECURSIVE SumTo(_, _)
SumTo(f, n) == IF n < 0 THEN 0 ELSE f[n] + SumTo(f, n - 1)
TotalSends == SumTo(send_attempts, NUM_CHANNELS - 1)

\* The state a read leaves in the receive buffer: receive_packet zeroes the
\* first two bytes and the transport writes the frame over them.  The
\* buffer is kept up to the end of the latest frame: every read of it is
\* made through the slice [..received_len] or under recv_len > 4, with the
\* length that read returned, so no call looks at the older bytes beyond.
AfterRead(frame) == WriteAt(<< 0, 0 >>, 0, frame)

\* Whether the frame is a (channel, report id) frame.
IsFrame(frame, channel, report_id) ==
    /\ Len(frame) > PACKET_HEADER_LENGTH
    /\ frame[3] = channel
    /\ frame[PACKET_HEADER_LENGTH + 1] = report_id

\* The send-side effect of one send_packet call with outcome r (transport
\* result tx when the frame was built and handed over).
SendEffect(channel, body, r, tx) ==
    /\ sequence_numbers' = r.seqs
    /\ packet_send_buf' = r.buf
    /\ sent' = IF r.stage = "built" THEN r.frame ELSE sent
    /\ send_attempts' = IF channel \in Channels
                        THEN [send_attempts EXCEPT ![channel] = @ + 1]
                        ELSE send_attempts
    /\ last_send' = [channel |-> channel, body |-> body,
                     before |-> IF channel \in Channels THEN sequence_numbers[channel] ELSE 0,
                     stage |-> r.stage, ok |-> r.stage = "built" /\ tx.ok]
    /\ transport_result' = IF r.stage = "built" THEN tx ELSE transport_result

\* The events of a send_packet call: one send when the frame was built.
SendEvents(channel, body, r, tx) ==
    IF r.stage = "built" THEN << Event("send", tx.ok, channel, body) >> ELSE << >>

\* The event of one receive_packet call.
RecvEvent(rx_ok, frame) ==
    Event("recv", rx_ok, IF rx_ok /\ Len(frame) > 0 THEN 1 ELSE 0, << >>)

Idle == pc = "idle" /\ ~panicked

\* What one transport read can yield: a failure, or one of `frames`.
ReadOutcomes(frames) ==
    { [ok |-> FALSE, frame |-> << >>, err |-> e] : e \in TransportErrors }
      \cup { [ok |-> TRUE, frame |-> f, err |-> 0] : f \in frames }

\* The transport's result of the read with outcome rx.
ReadResult(rx) == IF rx.ok THEN IoOk(Len(rx.frame)) ELSE IoErr(rx.err)

\* The receive buffer after receive_packet with read outcome rx.
RecvBufAfter(rx) == IF rx.ok THEN AfterRead(rx.frame) ELSE << 0, 0 >>

\* eat_one_message, were a failed read counted as a message of one byte.
eat_one_message_ErrorAsMessage(rx) == IF rx.ok THEN Len(rx.frame) ELSE 1

\* eat_one_message's result for read outcome rx: res.unwrap_or(0).
eat_one_message(rx) == IF rx.ok THEN Len(rx.frame) ELSE 0

\* ------------------------------------------------- receive-side operations

\* The effect of handle_received_packet(received_len) on the buffer `buf`,
\* called from operation op that returns val when the dispatch completes
\* (a panic is recorded with the received length).
Dispatch(op, buf, received_len, val) ==
    LET o == handle_received_packet(buf, received_len, device_reset, prod_id_verified)
        frame == SubSeq(buf, 1, received_len)
    IN /\ device_reset' = o.device_reset
       /\ prod_id_verified' = o.prod_id_verified
       /\ panicked' = o.panic
       /\ ret' = IF o.panic THEN Ret(op, "panic", received_len) ELSE Ret(op, "Ok", val)
       /\ reset_frame_dispatched' =
            (reset_frame_dispatched
               \/ IsFrame(frame, CHANNEL_EXECUTABLE, EXECUTABLE_DEVICE_RESP_RESET_COMPLETE))
       /\ hub_pid_frame_received' =
            (hub_pid_frame_received
               \/ IsFrame(frame, CHANNEL_HUB_CONTROL, SENSORHUB_PROD_ID_RESP))
       /\ last_millis' = last_millis

\* receive_packet, were the frame it read dispatched as well.
ReceivePacket_Dispatches(frames) ==
    /\ Idle
    /\ \E rx \in ReadOutcomes(frames) :
         /\ packet_recv_buf' = RecvBufAfter(rx)
         /\ transport_result' = ReadResult(rx)
         /\ events' = << RecvEvent(rx.ok, rx.frame) >>
         /\ IF rx.ok /\ Len(rx.frame) > 0
            THEN Dispatch("receive_packet", RecvBufAfter(rx), Len(rx.frame), Len(rx.frame))
            ELSE /\ ret' = IF rx.ok THEN Ret("receive_packet", "Ok", 0)
                                    ELSE Ret("receive_packet", "CommError", rx.err)
                 /\ UNCHANGED << flagVars, ghostVars, panicked >>
    /\ UNCHANGED << sendVars, pc, drained >>

\* pub fn receive_packet
ReceivePacket(frames) ==
    /\ Idle
    /\ \E rx \in ReadOutcomes(frames) :
         /\ packet_recv_buf' = RecvBufAfter(rx)
         /\ transport_result' = ReadResult(rx)
         /\ ret' = IF rx.ok THEN Ret("receive_packet", "Ok", Len(rx.frame))
                            ELSE Ret("receive_packet", "CommError", rx.err)
         /\ events' = << RecvEvent(rx.ok, rx.frame) >>
    /\ UNCHANGED << sendVars, flagVars, ghostVars, panicked, pc, drained >>

\* pub fn eat_one_message
EatOneMessage(frames) ==
    /\ Idle
    /\ \E rx \in ReadOutcomes(frames) :
         /\ packet_recv_buf' = RecvBufAfter(rx)
         /\ transport_result' = ReadResult(rx)
         /\ ret' = Ret("eat_one_message", "Ok", eat_one_message(rx))
         /\ events' = << RecvEvent(rx.ok, rx.frame) >>
    /\ UNCHANGED << sendVars, flagVars, ghostVars, panicked, pc, drained >>

\* handle_one_message, were a failed read returned to the caller as an error.
HandleOneMessage_Propagates(frames) ==
    /\ Idle
    /\ \E rx \in ReadOutcomes(frames) :
         /\ packet_recv_buf' = RecvBufAfter(rx)
         /\ transport_result' = ReadResult(rx)
         /\ events' = << RecvEvent(rx.ok, rx.frame) >>
         /\ IF rx.ok /\ Len(rx.frame) > 0
            THEN Dispatch("handle_one_message", RecvBufAfter(rx), Len(rx.frame), 1)
            ELSE /\ ret' = IF rx.ok THEN Ret("handle_one_message", "Ok", 0)
                                    ELSE Ret("handle_one_message", "CommError", rx.err)
                 /\ UNCHANGED << flagVars, ghostVars, panicked >>
    /\ UNCHANGED << sendVars, pc, drained >>

\* pub fn handle_one_message
HandleOneMessage(frames) ==
    /\ Idle
    /\ \E rx \in ReadOutcomes(frames) :
         /\ packet_recv_buf' = RecvBufAfter(rx)
         /\ transport_result' = ReadResult(rx)
         /\ events' = << RecvEvent(rx.ok, rx.frame) >>
         /\ IF rx.ok /\ Len(rx.frame) > 0
            THEN Dispatch("handle_one_message", RecvBufAfter(rx), Len(rx.frame), 1)
            ELSE /\ ret' = Ret("handle_one_message", "Ok", 0)
                 /\ UNCHANGED << flagVars, ghostVars, panicked >>
    /\ UNCHANGED << sendVars, pc, drained >>

\* pub fn handle_received_packet, called by the application with the length
\* its latest receive_packet returned (or once more on the same frame).
HandleReceivedPacket ==
    /\ Idle
    /\ ret.op \in {"receive_packet", "handle_received_packet"}
    /\ ret.res = "Ok"
    /\ Dispatch("handle_received_packet", packet_recv_buf, ret.val, ret.val)
    /\ events' = << >>
    /\ UNCHANGED << sendVars, recvVars, pc, drained, last_millis, transport_result >>

\* ---------------------------------------------------- send-side operations

\* The result of an operation that ends with a send_packet call of stage
\* r.stage and transport result tx.
SendRet(op, r, tx) ==
    IF r.stage # "built" THEN Ret(op, "panic", 0)
    ELSE IF tx.ok THEN Ret(op, "Ok", 0) ELSE Ret(op, "CommError", tx.err)

\* pub fn soft_reset
SoftReset ==
    /\ Idle
    /\ TotalSends < MaxSends
    /\ \E tx \in TransportResults, overflow_checks \in BOOLEAN :
         LET r == send_packet(sequence_numbers, packet_send_buf, CHANNEL_EXECUTABLE,
                              SoftResetBody, overflow_checks)
         IN /\ SendEffect(CHANNEL_EXECUTABLE, SoftResetBody, r, tx)
            /\ events' = SendEvents(CHANNEL_EXECUTABLE, SoftResetBody, r, tx)
            /\ panicked' = (r.stage # "built")
            /\ ret' = SendRet("soft_reset", r, tx)
    /\ UNCHANGED << recvVars, flagVars, ghostVars, pc, drained >>

\* Report intervals (milliseconds, u16) the application asks for.
EnableMillis == {100}

\* enable_report, as called by pub fn enable_rotation_vector
enable_report(op, report_id, millis_between_reports) ==
    \E tx \in TransportResults, overflow_checks \in BOOLEAN :
       LET cmd_body == EnableReportBody(report_id, millis_between_reports)
           r == send_packet(sequence_numbers, packet_send_buf, CHANNEL_HUB_CONTROL,
                            cmd_body, overflow_checks)
       IN /\ SendEffect(CHANNEL_HUB_CONTROL, cmd_body, r, tx)
          /\ events' = SendEvents(CHANNEL_HUB_CONTROL, cmd_body, r, tx)
          /\ panicked' = (r.stage # "built")
          /\ ret' = SendRet(op, r, tx)

\* pub fn enable_rotation_vector
EnableRotationVector(intervals) ==
    /\ Idle
    /\ TotalSends < MaxSends
    /\ \E millis \in intervals :
         /\ enable_report("enable_rotation_vector", SENSOR_REPORTID_ROTATION_VECTOR, millis)
         /\ last_millis' = millis
    /\ UNCHANGED << recvVars, flagVars, reset_frame_dispatched, hub_pid_frame_received,
                    pc, drained >>

\* ------------------------------------------------------------ the drain loop

\* pub fn eat_all_messages: entry
EatAllMessages ==
    /\ Idle
    /\ pc' = "eat_all"
    /\ ret' = Ret("eat_all_messages", "running", 0)
    /\ events' = << >>
    /\ drained' = 0
    /\ UNCHANGED << sendVars, recvVars, flagVars, ghostVars, panicked, transport_result >>

\* One iteration of the loop, were each frame it takes dispatched.
DrainStep_Dispatches(frames) ==
    /\ pc \in {"eat_all", "init_drain"}
    /\ ~panicked
    /\ \E rx \in ReadOutcomes(frames) :
         LET received_len == eat_one_message(rx)
             o == handle_received_packet(RecvBufAfter(rx), received_len,
                                         device_reset, prod_id_verified)
         IN
         /\ packet_recv_buf' = RecvBufAfter(rx)
         /\ transport_result' = ReadResult(rx)
         /\ IF received_len = 0
            THEN /\ events' = events \o << RecvEvent(rx.ok, rx.frame) >>
                 /\ pc' = IF pc = "eat_all" THEN "idle" ELSE "init_verify_send"
                 /\ ret' = IF pc = "eat_all" THEN Ret("eat_all_messages", "Ok", 0) ELSE ret
                 /\ drained' = drained
                 /\ UNCHANGED << flagVars, panicked >>
            ELSE /\ drained < MaxDrain
                 /\ events' = events \o << RecvEvent(rx.ok, rx.frame),
                                           Event("delay", TRUE, 1, << >>) >>
                 /\ drained' = drained + 1
                 /\ device_reset' = o.device_reset
                 /\ prod_id_verified' = o.prod_id_verified
                 /\ panicked' = o.panic
                 /\ UNCHANGED << pc, ret >>
    /\ UNCHANGED << sendVars, ghostVars >>

\* One iteration of the loop, were the 1 ms delay after a frame left out.
DrainStep_NoDelay(frames) ==
    /\ pc \in {"eat_all", "init_drain"}
    /\ ~panicked
    /\ \E rx \in ReadOutcomes(frames) :
         LET received_len == eat_one_message(rx) IN
         /\ packet_recv_buf' = RecvBufAfter(rx)
         /\ transport_result' = ReadResult(rx)
         /\ events' = events \o << RecvEvent(rx.ok, rx.frame) >>
         /\ IF received_len = 0
            THEN /\ pc' = IF pc = "eat_all" THEN "idle" ELSE "init_verify_send"
                 /\ ret' = IF pc = "eat_all" THEN Ret("eat_all_messages", "Ok", 0) ELSE ret
                 /\ drained' = drained
            ELSE /\ drained < MaxDrain
                 /\ drained' = drained + 1
                 /\ UNCHANGED << pc, ret >>
    /\ UNCHANGED << sendVars, flagVars, ghostVars, panicked >>

\* One iteration of the loop of eat_all_messages, running on its own
\* (pc = "eat_all") or as step 6 of init (pc = "init_drain").
DrainStep(frames) ==
    /\ pc \in {"eat_all", "init_drain"}
    /\ ~panicked
    /\ \E rx \in ReadOutcomes(frames) :
         LET received_len == eat_one_message(rx) IN
         /\ packet_recv_buf' = RecvBufAfter(rx)
         /\ transport_result' = ReadResult(rx)
         /\ IF received_len = 0
            THEN /\ events' = events \o << RecvEvent(rx.ok, rx.frame) >>
                 /\ pc' = IF pc = "eat_all" THEN "idle" ELSE "init_verify_send"
                 /\ ret' = IF pc = "eat_all" THEN Ret("eat_all_messages", "Ok", 0) ELSE ret
                 /\ drained' = drained
            ELSE /\ drained < MaxDrain
                 /\ events' = events \o << RecvEvent(rx.ok, rx.frame),
                                           Event("delay", TRUE, 1, << >>) >>
                 /\ drained' = drained + 1
                 /\ UNCHANGED << pc, ret >>
    /\ UNCHANGED << sendVars, flagVars, ghostVars, panicked >>

\* --------------------------------------------------------------------- init

\* init: self.sensor_interface.setup(Some(delay_source))
InitSetup ==
    /\ Idle
    /\ TotalSends + 2 <= MaxSends
    /\ \E setup \in TransportResults :
         /\ events' = << Event("setup", setup.ok, 0, << >>) >>
         /\ pc' = IF setup.ok THEN "init_reset" ELSE "idle"
         /\ ret' = IF setup.ok THEN Ret("init", "running", 0)
                               ELSE Ret("init", "CommError", setup.err)
         /\ transport_result' = setup
    /\ drained' = 0
    /\ UNCHANGED << sendVars, recvVars, flagVars, ghostVars, panicked >>

\* A send_packet call inside init, were a failed transport send ignored and
\* init carried on.
InitSend_GoesOn(channel, body, pc_next, after) ==
    \E tx \in TransportResults, overflow_checks \in BOOLEAN :
       LET r == send_packet(sequence_numbers, packet_send_buf, channel, body, overflow_checks)
           built == r.stage = "built"
       IN /\ SendEffect(channel, body, r, tx)
          /\ events' = events \o SendEvents(channel, body, r, tx)
                              \o (IF built THEN after ELSE << >>)
          /\ panicked' = ~built
          /\ pc' = IF built THEN pc_next ELSE "idle"
          /\ ret' = IF built THEN ret ELSE SendRet("init", r, tx)

\* A send_packet call inside init: on success init goes on at pc_next (after
\* the delays `after`), else it returns the transport's error or panics.
InitSend(channel, body, pc_next, after) ==
    \E tx \in TransportResults, overflow_checks \in BOOLEAN :
       LET r == send_packet(sequence_numbers, packet_send_buf, channel, body, overflow_checks)
           sent_ok == r.stage = "built" /\ tx.ok
       IN /\ SendEffect(channel, body, r, tx)
          /\ events' = events \o SendEvents(channel, body, r, tx)
                              \o (IF sent_ok THEN after ELSE << >>)
          /\ panicked' = (r.stage # "built")
          /\ pc' = IF sent_ok THEN pc_next ELSE "idle"
          /\ ret' = IF sent_ok THEN ret ELSE SendRet("init", r, tx)

\* init: self.soft_reset()?; delay_source.delay_ms(50);
InitSoftReset ==
    /\ pc = "init_reset"
    /\ ~panicked
    /\ InitSend(CHANNEL_EXECUTABLE, SoftResetBody, "init_eat",
                << Event("delay", TRUE, 50, << >>) >>)
    /\ UNCHANGED << recvVars, flagVars, ghostVars, drained >>

\* Step 4 of init, were the second 50 ms delay left out.
InitEatOne_NoDelay(frames) ==
    /\ pc = "init_eat"
    /\ ~panicked
    /\ \E rx \in ReadOutcomes(frames) :
         /\ packet_recv_buf' = RecvBufAfter(rx)
         /\ transport_result' = ReadResult(rx)
         /\ events' = events \o << RecvEvent(rx.ok, rx.frame) >>
    /\ pc' = "init_drain"
    /\ UNCHANGED << sendVars, flagVars, ghostVars, panicked, ret, drained >>

\* init: self.eat_one_message(); delay_source.delay_ms(50);
InitEatOne(frames) ==
    /\ pc = "init_eat"
    /\ ~panicked
    /\ \E rx \in ReadOutcomes(frames) :
         /\ packet_recv_buf' = RecvBufAfter(rx)
         /\ transport_result' = ReadResult(rx)
         /\ events' = events \o << RecvEvent(rx.ok, rx.frame),
                                   Event("delay", TRUE, 50, << >>) >>
    /\ pc' = "init_drain"
    /\ UNCHANGED << sendVars, flagVars, ghostVars, panicked, ret, drained >>

\* verify_product_id: the send half of send_and_receive_packet
InitVerifySend ==
    /\ pc = "init_verify_send"
    /\ ~panicked
    /\ InitSend(CHANNEL_HUB_CONTROL, ProdIdRequestBody, "init_verify_recv", << >>)
    /\ UNCHANGED << recvVars, flagVars, ghostVars, drained >>

\* The test, were a frame of exactly the header length accepted as well
\* (the byte after the header is then a zero the read left).
verify_product_id_NoLengthCheck(buf, recv_len) ==
    \/ recv_len = PACKET_HEADER_LENGTH
    \/ /\ recv_len > PACKET_HEADER_LENGTH
       /\ At(buf, PACKET_HEADER_LENGTH + 0) = SENSORHUB_PROD_ID_RESP

\* verify_product_id's test of the response in the receive buffer.
verify_product_id(buf, recv_len) ==
    /\ recv_len > PACKET_HEADER_LENGTH
    /\ At(buf, PACKET_HEADER_LENGTH + 0) = SENSORHUB_PROD_ID_RESP

\* verify_product_id: the receive half and the verdict, which init returns
InitVerifyRecv(frames) ==
    /\ pc = "init_verify_recv"
    /\ ~panicked
    /\ \E rx \in ReadOutcomes(frames) :
         /\ packet_recv_buf' = RecvBufAfter(rx)
         /\ transport_result' = ReadResult(rx)
         /\ events' = events \o << RecvEvent(rx.ok, rx.frame) >>
         /\ IF ~rx.ok
            THEN /\ ret' = Ret("init", "CommError", rx.err)
                 /\ UNCHANGED << prod_id_verified, hub_pid_frame_received >>
            ELSE /\ hub_pid_frame_received' =
                      (hub_pid_frame_received
                         \/ IsFrame(rx.frame, CHANNEL_HUB_CONTROL, SENSORHUB_PROD_ID_RESP))
                 /\ IF verify_product_id(RecvBufAfter(rx), Len(rx.frame))
                    THEN /\ prod_id_verified' = TRUE
                         /\ ret' = Ret("init", "Ok", 0)
                    ELSE /\ prod_id_verified' = prod_id_verified
                         /\ ret' = Ret("init", "InvalidChipId", 0)
    /\ pc' = "idle"
    /\ UNCHANGED << sendVars, device_reset, reset_frame_dispatched, last_millis,
                    panicked, drained >>

\* ------------------------------------------------------------ specifications

\* The driver under every sequence of public operations, the transport
\* delivering the frames of InitFrames.
Next ==
    \/ ReceivePacket(InitFrames)
    \/ EatOneMessage(InitFrames)
    \/ HandleOneMessage(InitFrames)
    \/ HandleReceivedPacket
    \/ SoftReset
    \/ EnableRotationVector(EnableMillis)
    \/ EatAllMessages
    \/ DrainStep(InitFrames)
    \/ InitSetup
    \/ InitSoftReset
    \/ InitEatOne(InitFrames)
    \/ InitVerifySend
    \/ InitVerifyRecv(InitFrames)

Spec == Init /\ [][Next]_vars

\* The receive side alone, the transport delivering the frames of
\* DispatchFrames.
NextDispatch ==
    \/ ReceivePacket(DispatchFrames)
    \/ HandleOneMessage(DispatchFrames)
    \/ HandleReceivedPacket

SpecDispatch == Init /\ [][NextDispatch]_vars

\* enable_rotation_vector over the range of its u16 interval (both ends, the
\* byte boundaries and the usual 100 ms), between reads that dispatch.
EnableIntervals == {0, 1, 100, 255, 256, 65535}

NextEnable ==
    \/ EnableRotationVector(EnableIntervals)
    \/ HandleOneMessage(InitFrames)

SpecEnable == Init /\ [][NextEnable]_vars

\* receive_packet on its own, the transport delivering the frames of
\* InitFrames and the fixture, between soft resets (which move a counter)
\* and dispatching reads (which set the flags).
NextReceive ==
    \/ ReceivePacket(InitFrames \cup {MIDPACK})
    \/ HandleOneMessage(InitFrames)
    \/ SoftReset

SpecReceive == Init /\ [][NextReceive]_vars

\* eat_all_messages on its own.  The call is one synchronous loop: once it
\* is entered, the next iteration is always taken (weak fairness of
\* DrainStep), and the transport yields at most MaxDrain non-empty frames
\* before an empty or failed read.  Between drains the application may
\* call handle_one_message, which sets the flags.
NextDrain ==
    \/ EatAllMessages
    \/ DrainStep(InitFrames)
    \/ HandleOneMessage(InitFrames)

SpecDrain == Init /\ [][NextDrain]_vars /\ WF_vars(DrainStep(InitFrames))

\* ------------------------------------------------- send_packet on its own

\* Body lengths of the send_packet calls: empty, short, the set-feature
\* command's 17, the longest that fits the send buffer, and the first that
\* does not.
SendBodyLens == {0, 1, 17, PACKET_SEND_BUF_LEN - PACKET_HEADER_LENGTH,
                 PACKET_SEND_BUF_LEN - PACKET_HEADER_LENGTH + 1}
\* The body of n bytes seed+1, seed+2, ... (mod 256).
MkBody(n, seed) == [i \in 1..n |-> (seed + i) % 256]
SendBodies == { MkBody(n, 16) : n \in SendBodyLens }
\* Counter values the channels hold when the calls start, each reached by
\* that many earlier send_packet calls on the channel.
SendStarts == {0, 254, 255}

SendInit ==
    /\ \E s \in SendStarts :
         /\ sequence_numbers = [c \in Channels |-> s]
         /\ send_attempts = [c \in Channels |-> s]
    /\ packet_send_buf = << >>
    /\ packet_recv_buf = << >>
    /\ device_reset = FALSE
    /\ prod_id_verified = FALSE
    /\ panicked = FALSE
    /\ pc = "idle"
    /\ ret = Ret("new", "Ok", 0)
    /\ events = << >>
    /\ drained = 0
    /\ sent = << >>
    /\ last_send = NoSend
    /\ reset_frame_dispatched = FALSE
    /\ hub_pid_frame_received = FALSE
    /\ last_millis = 0
    /\ transport_result = IoOk(0)

\* The send_packet calls made since SendInit: every channel starts at the
\* same count and fewer calls are made than there are channels, so the
\* least count is the one they started at.
RECURSIVE LeastTo(_, _)
LeastTo(f, n) == IF n = 0 THEN f[0] ELSE Min(f[n], LeastTo(f, n - 1))
SendCalls == TotalSends - NUM_CHANNELS * LeastTo(send_attempts, NUM_CHANNELS - 1)

\* fn send_packet(channel, body_data), with the transport's result
SendPacketCall ==
    /\ Idle
    /\ SendCalls < MaxSendCalls
    /\ \E channel \in Channels, body_data \in SendBodies,
          tx \in TransportResults, overflow_checks \in BOOLEAN :
         LET r == send_packet(sequence_numbers, packet_send_buf, channel, body_data,
                              overflow_checks)
         IN /\ SendEffect(channel, body_data, r, tx)
            /\ events' = SendEvents(channel, body_data, r, tx)
            /\ panicked' = (r.stage # "built")
            /\ ret' = IF r.stage # "built" THEN Ret("send_packet", "panic", 0)
                      ELSE IF tx.ok THEN Ret("send_packet", "Ok", r.packet_length)
                      ELSE Ret("send_packet", "CommError", tx.err)
    /\ UNCHANGED << recvVars, flagVars, ghostVars, pc, drained >>

NextSend == SendPacketCall

SpecSend == SendInit /\ [][NextSend]_vars

\* ------------------------------------------------------------------- claims

DispatchOps == {"handle_one_message", "handle_received_packet"}

\* The latest call dispatched the frame that is in the receive buffer.
Dispatched ==
    \/ ret.op = "handle_one_message" /\ (ret.res = "panic" \/ ret.val = 1)
    \/ ret.op = "handle_received_packet"

\* C1: dispatch is total: no dispatch of a received frame of non-zero length
\* faults, whatever its channel, report id, body and length (SpecDispatch).
C1_DispatchTotal ==
    (Dispatched /\ ret.res = "panic") => ret.val = 0

\* C2: the tag-length-value walk of a dispatched Command-channel frame with
\* report id 0 never reads at or beyond the end of the body, so dispatching
\* such a frame never faults (SpecDispatch).
C2_AdvertiseWalkInBounds ==
    (Dispatched /\ IsFrame(packet_recv_buf, SHTP_CHAN_COMMAND, 0)) => ~panicked

C4_FlagsMonotonic ==
    [][ /\ device_reset => device_reset'
        /\ prod_id_verified => prod_id_verified' ]_vars

\* C4 witness: both flags are still set after an init (a soft reset, then a
\* failed product-ID verification) that ran with both flags set.
C4_Witness ==
    /\ device_reset
    /\ prod_id_verified
    /\ ret = Ret("init", "InvalidChipId", 0)

\* C5: device_reset is false at construction and is true only if an
\* (Executable, 1) frame has been dispatched before (Spec).
C5_ResetOnlyByResetComplete ==
    /\ ret.op = "new" => ~device_reset
    /\ device_reset => reset_frame_dispatched

\* C5 witness: device_reset is set right after handle_one_message dispatched
\* an (Executable, 1) frame.
C5_Witness ==
    /\ device_reset
    /\ ret = Ret("handle_one_message", "Ok", 1)
    /\ IsFrame(packet_recv_buf, CHANNEL_EXECUTABLE, EXECUTABLE_DEVICE_RESP_RESET_COMPLETE)

\* C6: prod_id_verified is false at construction and is true only if a
\* HubControl frame whose first body byte is 0xF8 has been received before,
\* as the response verify_product_id read or in a dispatch; a frame on any
\* other channel never sets it (Spec).
C6_VerifiedOnlyByHubControlFrame ==
    /\ ret.op = "new" => ~prod_id_verified
    /\ prod_id_verified => hub_pid_frame_received

\* The send_packet call of the latest step was made on channel c.
SentOn(c) == send_attempts'[c] = send_attempts[c] + 1

\* C7: every send on channel c carries the counter of c plus one modulo 256
\* (255 wraps to 0 without a fault) and leaves every other counter as it
\* was (SpecSend).
C7_SequenceWraps ==
    [][ \A c \in Channels :
          (SentOn(c) /\ Len(last_send'.body) + PACKET_HEADER_LENGTH <= PACKET_SEND_BUF_LEN)
          => /\ ~panicked'
             /\ sequence_numbers'[c] = (sequence_numbers[c] + 1) % 256
             /\ Len(sent') >= PACKET_HEADER_LENGTH
             /\ sent'[4] = sequence_numbers'[c]
             /\ \A d \in Channels \ {c} : sequence_numbers'[d] = sequence_numbers[d] ]_vars

\* The 16-bit little-endian length field of a frame.
LengthField(frame) == frame[1] + 256 * frame[2]

\* C8: the frame a send_packet(channel, body) call hands to the transport
\* is [length_lo, length_hi, channel, sequence] followed by the body, with
\* length = body length + 4: parsing it recovers the channel and the body,
\* and exactly length bytes are handed over (SpecSend).
C8_FramingRoundTrip ==
    (ret.op = "send_packet" /\ last_send.stage = "built")
    => LET channel == last_send.channel
           body == last_send.body
           length == Len(body) + 4
       IN /\ Len(body) <= 252
          /\ sent = << length % 256, length \div 256, channel,
                       sequence_numbers[channel] >> \o body
          /\ Len(sent) = length
          /\ LengthField(sent) = length
          /\ sent[3] = channel
          /\ SubSeq(sent, 5, LengthField(sent)) = body
          /\ events = << Event("send", last_send.ok, channel, body) >>

\* C8 witness: a frame of the full 256 bytes (a 252-byte body) was handed
\* to the transport on channel 5.
C8_Witness ==
    /\ ret.op = "send_packet"
    /\ last_send.stage = "built"
    /\ last_send.channel = 5
    /\ Len(last_send.body) = 252
    /\ Len(sent) = 256

\* C9: once setup and both sends have succeeded and the response to the
\* product-ID request has been received, init succeeds and sets
\* prod_id_verified when the received length is above 4 and byte 4 is 0xF8,
\* and otherwise fails with InvalidChipId and leaves prod_id_verified as it
\* was (Spec).
C9_ProductIdVerdict ==
    [][ (pc = "init_verify_recv" /\ pc' = "idle" /\ events'[Len(events')].ok)
        => IF Len(packet_recv_buf') > 4 /\ packet_recv_buf'[5] = 248
           THEN ret' = Ret("init", "Ok", 0) /\ prod_id_verified'
           ELSE /\ ret' = Ret("init", "InvalidChipId", 0)
                /\ prod_id_verified' = prod_id_verified ]_vars

\* C9 witness: init has failed with InvalidChipId on a 5-byte response
\* whose byte 4 is not 0xF8, and prod_id_verified is still false.
C9_Witness ==
    /\ ret = Ret("init", "InvalidChipId", 0)
    /\ Len(packet_recv_buf) = 5
    /\ packet_recv_buf[5] # 248
    /\ ~prod_id_verified

\* The phase of init's event order after the events log[i..], from `phase`;
\* "bad" when an event is not the one the order allows next.
RECURSIVE InitPhaseAfter(_, _, _)
InitPhaseAfter(log, i, phase) ==
    IF i > Len(log) THEN phase
    ELSE
    LET e == log[i] IN
    CASE phase = "setup" ->
           IF e.kind = "setup"
           THEN InitPhaseAfter(log, i + 1, IF e.ok THEN "reset" ELSE "end")
           ELSE "bad"
      [] phase = "reset" ->
           IF e = Event("send", e.ok, 1, << 1 >>)
           THEN InitPhaseAfter(log, i + 1, IF e.ok THEN "delay_a" ELSE "end")
           ELSE "bad"
      [] phase = "delay_a" ->
           IF e = Event("delay", TRUE, 50, << >>)
           THEN InitPhaseAfter(log, i + 1, "eat") ELSE "bad"
      [] phase = "eat" ->
           IF e.kind = "recv" THEN InitPhaseAfter(log, i + 1, "delay_b") ELSE "bad"
      [] phase = "delay_b" ->
           IF e = Event("delay", TRUE, 50, << >>)
           THEN InitPhaseAfter(log, i + 1, "drain") ELSE "bad"
      [] phase = "drain" ->
           IF e.kind = "recv"
           THEN InitPhaseAfter(log, i + 1, IF e.num = 1 THEN "drain_delay" ELSE "request")
           ELSE "bad"
      [] phase = "drain_delay" ->
           IF e = Event("delay", TRUE, 1, << >>)
           THEN InitPhaseAfter(log, i + 1, "drain") ELSE "bad"
      [] phase = "request" ->
           IF e = Event("send", e.ok, 2, << 249, 0 >>)
           THEN InitPhaseAfter(log, i + 1, IF e.ok THEN "response" ELSE "end")
           ELSE "bad"
      [] phase = "response" ->
           IF e.kind = "recv" THEN InitPhaseAfter(log, i + 1, "end") ELSE "bad"
      [] OTHER -> "bad"

\* C10: the events of every run of init are, in this order and no other:
\* setup; a send of [0x01] on the Executable channel; a delay of 50; one
\* receive; a delay of 50; the drain receives, each non-empty one followed
\* by a delay of 1, up to the first that yields no frame; a send of
\* [0xF9, 0x00] on HubControl; one receive.  A run that has returned has
\* gone through all of them, or ended at the setup or send that failed
\* (Spec).
C10_InitEventOrder ==
    ret.op = "init"
    => LET phase == InitPhaseAfter(events, 1, "setup")
       IN /\ phase # "bad"
          /\ (pc = "idle" /\ ~panicked) => phase = "end"

\* C10 witness: init has succeeded after a drain that took two frames.
C10_Witness ==
    /\ ret = Ret("init", "Ok", 0)
    /\ drained = 2
    /\ Len(events) = 12

\* C11: a failed transport read is swallowed by the eat operations:
\* eat_one_message returns 0 when the read fails and the length the
\* transport reported otherwise; the drain loop stops at a failed read just
\* as at an empty one, eat_all_messages returning without an error; and in
\* init neither step 4 nor the drain of step 6 ends init, whatever the read
\* yields: init goes on to the product-id request.
C11_EatSwallowsErrors ==
    [][/\ ret'.op = "eat_one_message"
            => /\ ret'.res = "Ok"
               /\ ret'.val = (IF transport_result'.ok THEN transport_result'.len ELSE 0)
       /\ (pc \in {"eat_all", "init_drain"}
              /\ (~transport_result'.ok \/ transport_result'.len = 0))
            => /\ pc' = (IF pc = "eat_all" THEN "idle" ELSE "init_verify_send")
               /\ ret' = (IF pc = "eat_all" THEN Ret("eat_all_messages", "Ok", 0) ELSE ret)
               /\ events' = events \o << Event("recv", transport_result'.ok, 0, << >>) >>
       /\ pc = "init_eat"
            => /\ pc' = "init_drain"
               /\ ret' = Ret("init", "running", 0)
       /\ pc = "init_drain"
            => /\ pc' \in {"init_drain", "init_verify_send"}
               /\ ret' = Ret("init", "running", 0)
      ]_vars

\* init has succeeded although the read of step 4 and the read that ended
\* the drain of step 6 both failed.
C11_Witness ==
    /\ ret = Ret("init", "Ok", 0)
    /\ Len(events) = 8
    /\ events[4] = Event("recv", FALSE, 0, << >>)
    /\ events[6] = Event("recv", FALSE, 0, << >>)

\* The i-th event of the running or latest init is a transport failure that
\* ends init: a failed setup, a failed send, or a failed read of the
\* product-id response (the read after the request on the hub-control
\* channel).
InitFatal(i) ==
    /\ ~events[i].ok
    /\ \/ events[i].kind \in {"setup", "send"}
       \/ /\ events[i].kind = "recv"
          /\ \E j \in 1..(i - 1) :
                events[j].kind = "send" /\ events[j].num = CHANNEL_HUB_CONTROL

\* The events of the log that satisfy the test.
EventsWhere(Test(_)) == { i \in 1..Len(events) : Test(events[i]) }

\* C12: init fails fast and never retries: a failed setup, soft-reset send,
\* product-id request send or product-id response read is the last event of
\* init, which then has returned CommError with the transport's error
\* unchanged; init returns CommError in no other case; and init calls setup
\* at most once, sends at most once on the executable and once on the
\* hub-control channel, and reads the response at most once.
C12_InitFailsFast ==
    ret.op = "init" =>
       /\ \A i \in 1..Len(events) :
             InitFatal(i) => /\ i = Len(events)
                             /\ pc = "idle"
                             /\ ret = Ret("init", "CommError", transport_result.err)
                             /\ transport_result.err \in TransportErrors
       /\ ret.res = "CommError" => Len(events) > 0 /\ InitFatal(Len(events))
       /\ Cardinality(EventsWhere(LAMBDA e : e.kind = "setup")) <= 1
       /\ \A c \in Channels :
             Cardinality(EventsWhere(LAMBDA e : e.kind = "send" /\ e.num = c))
               <= (IF c \in {CHANNEL_EXECUTABLE, CHANNEL_HUB_CONTROL} THEN 1 ELSE 0)
       /\ Cardinality({ i \in 1..Len(events) :
                          /\ events[i].kind = "recv"
                          /\ \E j \in 1..(i - 1) : events[j].kind = "send"
                                                    /\ events[j].num = CHANNEL_HUB_CONTROL })
            <= 1

\* init has returned the transport's error of the failed product-id request,
\* after the reset, both delays and the drain.
C12_Witness ==
    /\ ret.op = "init"
    /\ ret.res = "CommError"
    /\ Len(events) >= 7
    /\ events[Len(events)] = Event("send", FALSE, CHANNEL_HUB_CONTROL, ProdIdRequestBody)

\* The error results of WrapperError.
ErrorResults == {"CommError", "InvalidChipId"}

C14_HandleOneMessageCount ==
    ret.op = "handle_one_message" =>
       /\ Len(events) = 1
       /\ events[1].kind = "recv"
       /\ ret = Ret("handle_one_message", "Ok",
                    IF transport_result.ok /\ transport_result.len > 0 THEN 1 ELSE 0)
       /\ (transport_result.ok /\ IsFrame(packet_recv_buf, SHTP_CHAN_COMMAND, 0))
            => ret = Ret("handle_one_message", "Ok", 1)

\* C15: enable_rotation_vector(interval_ms) hands exactly one frame to the
\* transport, on the hub-control channel, whose body is exactly 17 bytes:
\* 0xFD, the report id, three zero bytes, the four bytes of
\* interval_ms * 1000 least significant first, and eight zero bytes; the
\* product fits four bytes for every interval; the call reads nothing and
\* leaves both flags as they were (SpecEnable).
C15_EnableReportBody ==
    [][ret'.op = "enable_rotation_vector" =>
         /\ ~panicked'
         /\ Len(events') = 1
         /\ events'[1].kind = "send"
         /\ events'[1].num = CHANNEL_HUB_CONTROL
         /\ sent'[3] = CHANNEL_HUB_CONTROL
         /\ SubSeq(sent', PACKET_HEADER_LENGTH + 1, Len(sent')) = events'[1].body
         /\ LET b == events'[1].body
            IN /\ Len(b) = 17
               /\ b[1] = SHTP_REPORT_SET_FEATURE_COMMAND
               /\ b[2] = SENSOR_REPORTID_ROTATION_VECTOR
               /\ \A i \in (3..5) \cup (10..17) : b[i] = 0
               /\ \A i \in 6..9 : b[i] \in 0..255
               /\ b[6] + 256 * b[7] + 65536 * b[8] + 16777216 * b[9] = last_millis' * 1000
         /\ packet_recv_buf' = packet_recv_buf
         /\ device_reset' = device_reset
         /\ prod_id_verified' = prod_id_verified
      ]_vars

\* The longest interval has been asked for, after the product id was
\* verified by a dispatched frame, and the frame was sent.
C15_Witness ==
    /\ ret = Ret("enable_rotation_vector", "Ok", 0)
    /\ last_millis = 65535
    /\ prod_id_verified
    /\ Len(sent) = PACKET_HEADER_LENGTH + 17

\* C16: receive_packet makes exactly one transport read and returns the
\* length the transport reported (52 for the 52-byte fixture) when the read
\* succeeds, CommError with the transport's error otherwise; it dispatches
\* nothing: both flags and every sequence counter stay as they were
\* (SpecReceive).
C16_ReceivePacketOnly ==
    [][ret'.op = "receive_packet" =>
         /\ Len(events') = 1
         /\ events'[1].kind = "recv"
         /\ ret' = (IF transport_result'.ok
                    THEN Ret("receive_packet", "Ok", transport_result'.len)
                    ELSE Ret("receive_packet", "CommError", transport_result'.err))
         /\ (transport_result'.ok /\ packet_recv_buf' = MIDPACK) => ret'.val = 52
         /\ ~panicked'
         /\ UNCHANGED << device_reset, prod_id_verified, sequence_numbers,
                         reset_frame_dispatched, hub_pid_frame_received >>
      ]_vars

\* receive_packet has returned 52 for the fixture, a product-id response
\* that it did not dispatch, after a soft reset had moved a counter.
C16_Witness ==
    /\ ret = Ret("receive_packet", "Ok", 52)
    /\ packet_recv_buf = MIDPACK
    /\ ~prod_id_verified
    /\ sequence_numbers[CHANNEL_EXECUTABLE] = 1

\* C17: dispatching a frame that is neither (Executable, 1) nor
\* (HubControl, 0xF8) changes neither flag nor any sequence counter and
\* raises no error: frames on unknown channels, sensor reports, command
\* frames with any report id, command responses with any sub-code and
\* unrecognized report ids alike.  Stated for frames of at least 10 bytes,
\* which hold every fixed offset the dispatcher reads (SpecDispatch).
C17_OtherFramesChangeNothing ==
    [][(/\ ret'.op \in DispatchOps
        /\ Len(packet_recv_buf') >= 10
        /\ ~IsFrame(packet_recv_buf', CHANNEL_EXECUTABLE,
                    EXECUTABLE_DEVICE_RESP_RESET_COMPLETE)
        /\ ~IsFrame(packet_recv_buf', CHANNEL_HUB_CONTROL, SENSORHUB_PROD_ID_RESP))
         => /\ ~panicked'
            /\ ret'.res = "Ok"
            /\ UNCHANGED << device_reset, prod_id_verified, sequence_numbers >>
      ]_vars

\* The log starts with k rounds of a non-empty read followed by a delay of
\* 1 ms.
DrainRounds(k) ==
    /\ Len(events) >= 2 * k
    /\ \A i \in 1..k : /\ events[2 * i - 1] = Event("recv", TRUE, 1, << >>)
                       /\ events[2 * i] = Event("delay", TRUE, 1, << >>)

\* C18: eat_all_messages returns once the transport yields an empty or a
\* failed read: after k non-empty frames and then such a read it has made
\* exactly k + 1 reads and k delays of 1 ms, a read and a delay in turn,
\* and has returned; it returns at no other point, so it never returns
\* while every read is non-empty (SpecDrain).
C18_DrainTerminates ==
    /\ [](pc = "eat_all" => Len(events) = 2 * drained /\ DrainRounds(drained))
    /\ [](ret = Ret("eat_all_messages", "Ok", 0)
            => /\ Len(events) = 2 * drained + 1
               /\ DrainRounds(drained)
               /\ events[Len(events)].kind = "recv"
               /\ events[Len(events)].num = 0)
    /\ [][(pc = "eat_all" /\ pc' # "eat_all")
            => /\ ~transport_result'.ok \/ transport_result'.len = 0
               /\ ret' = Ret("eat_all_messages", "Ok", 0)]_vars
    /\ (pc = "eat_all") ~> (pc = "idle" /\ ret = Ret("eat_all_messages", "Ok", 0))

\* eat_all_messages has returned after two frames and a failed read.
C18_Witness ==
    /\ ret = Ret("eat_all_messages", "Ok", 0)
    /\ drained = 2
    /\ Len(events) = 5
    /\ events[5] = Event("recv", FALSE, 0, << >>)

\* C19: in every reachable state the counter of each channel is the number
\* of send attempts made on that channel since construction, modulo 256: it
\* is incremented once per attempt, before the transport is called, so a
\* failed send consumes a number as well, and the frame handed over carries
\* the incremented counter (1 on the first frame of a channel) (SpecSend).
C19_CounterCountsAttempts ==
    /\ \A c \in Channels : sequence_numbers[c] = send_attempts[c] % 256
    /\ last_send.stage = "built"
         => sent[PACKET_HEADER_LENGTH] = send_attempts[last_send.channel] % 256

\* C20: no step of init changes the reset flag: the frames init reads in
\* step 4, in the drain of step 6 and as the product-id response are not
\* dispatched, a reset-complete frame among them included; the only flag a
\* step of init changes is the product-id flag, on the step that returns
\* success.
C20_InitKeepsResetFlag ==
    [][ret'.op = "init" =>
         /\ device_reset' = device_reset
         /\ reset_frame_dispatched' = reset_frame_dispatched
         /\ prod_id_verified' # prod_id_verified => ret' = Ret("init", "Ok", 0)
      ]_vars

\* The drain of init has taken a reset-complete frame from the device and
\* the reset flag is still false.
C20_Witness ==
    /\ ret = Ret("init", "running", 0)
    /\ pc = "init_drain"
    /\ drained >= 1
    /\ IsFrame(packet_recv_buf, CHANNEL_EXECUTABLE, EXECUTABLE_DEVICE_RESP_RESET_COMPLETE)
    /\ ~device_reset

====
